---- MODULE Spec2Model ----
(***************************************************************************)
(* Model of rsln's netlink core: the FIB rule encoder (handle/rule.rs),    *)
(* the socket-diagnostics query and response parser (handle/sock_diag.rs,  *)
(* types/sock_diag.rs) and the TLV attribute codec they are built on.      *)
(* One call is in flight at a time: a public operation lowers its input to *)
(* a request, hands it to the Socket Transport, and the transport's answer *)
(* finishes the call.                                                      *)
(***************************************************************************)
EXTENDS Integers, Sequences, FiniteSets, TLC

VARIABLES pc, op, rule, family, hostBE, req, requests, replies, result, tlv

vars == <<pc, op, rule, family, hostBE, req, requests, replies, result, tlv>>

(***************************************************************************)
(* Bounds of the model.                                                    *)
(***************************************************************************)
MaxPayloadLen == 5      \* longest payload of the TLV codec exercise
MaxReplies == 2         \* most reply buffers of one diagnostics dump

(***************************************************************************)
(* Kernel ABI constants used by the source.                                *)
(***************************************************************************)
FIB_RULE_INVERT == 2
AF_INET == 2
AF_INET6 == 10
RTPROT_BOOT == 3
RT_SCOPE_UNIVERSE == 0
RT_TABLE_UNSPEC == 0
RTN_UNICAST == 1
RTA_DST == 1
RTA_SRC == 2
RTM_NEWRULE == 32
RTM_DELRULE == 33
NLM_F_ACK == 4
NLM_F_EXCL == 512
NLM_F_CREATE == 1024
NLM_F_DUMP == 768
SOCK_DIAG_BY_FAMILY == 20
IPPROTO_TCP == 6
IPPROTO_UDP == 17
INET_DIAG_MEMINFO == 1
INET_DIAG_INFO == 2
INET_DIAG_VEGASINFO == 3
INET_DIAG_BBRINFO == 16
SockDiagIdLEN == 48
SockDiagLEN == SockDiagIdLEN + 24
RT_ATTR_HDR_SIZE == 4
U16Max == 65535

(***************************************************************************)
(* Integer and byte helpers.                                               *)
(***************************************************************************)
RECURSIVE Pow2(_)
Pow2(n) == IF n = 0 THEN 1 ELSE 2 * Pow2(n - 1)

\* a & b
RECURSIVE BitAnd(_, _)
BitAnd(a, b) ==
    IF a = 0 \/ b = 0 THEN 0
    ELSE (a % 2) * (b % 2) + 2 * BitAnd(a \div 2, b \div 2)

\* a | b
BitOr(a, b) == a + b - BitAnd(a, b)

\* `as u8` of an integer
AsU8(x) == x % 256

Reverse(s) == [i \in 1..Len(s) |-> s[Len(s) + 1 - i]]

Zeros(n) == [i \in 1..n |-> 0]

RECURSIVE LeBytes(_, _)
LeBytes(v, n) == IF n = 0 THEN <<>> ELSE <<v % 256>> \o LeBytes(v \div 256, n - 1)

BeBytes(v, n) == Reverse(LeBytes(v, n))

\* to_ne_bytes: the byte order of the host the crate is built for
NeBytes(v, n, be) == IF be THEN BeBytes(v, n) ELSE LeBytes(v, n)

RECURSIVE FromLe(_)
FromLe(s) == IF Len(s) = 0 THEN 0 ELSE s[1] + 256 * FromLe(Tail(s))

FromBe(s) == FromLe(Reverse(s))

\* from_ne_bytes
FromNe(s, be) == IF be THEN FromBe(s) ELSE FromLe(s)

Slice(s, from, n) == SubSeq(s, from, from + n - 1)

RECURSIVE Flatten(_)
Flatten(ss) == IF Len(ss) = 0 THEN <<>> ELSE Head(ss) \o Flatten(Tail(ss))

Align4(n) == ((n + 3) \div 4) * 4

(***************************************************************************)
(* Option values: None is the empty sequence, Some(x) the one-element one. *)
(***************************************************************************)
None == <<>>

Some(x) == <<x>>

IsSome(o) == Len(o) = 1

Unwrap(o) == o[1]

Opt(cond, x) == IF cond THEN <<x>> ELSE <<>>

(***************************************************************************)
(* TLV Attribute Codec (types/message.rs: RouteAttr, RouteAttrs).          *)
(***************************************************************************)
RouteAttrNew(rta_type, payload) == [rta_type |-> rta_type, payload |-> payload]

\* declared length: header plus payload, padding not counted
RouteAttrLen(attr) == RT_ATTR_HDR_SIZE + Len(attr.payload)

\* variant: the declared length counts the padding
RouteAttrSerialize_PaddedLen(attr, be) ==
    LET len == RouteAttrLen(attr)
    IN  IF len > U16Max
        THEN [ok |-> FALSE, bytes |-> <<>>]
        ELSE [ok |-> TRUE,
              bytes |-> NeBytes(Align4(len), 2, be) \o NeBytes(attr.rta_type, 2, be)
                        \o attr.payload \o Zeros(Align4(len) - len)]

\* Attribute::serialize for RouteAttr: 2-byte length, 2-byte type, payload,
\* zero padding up to the next multiple of 4; fails when the length does not
\* fit the 16-bit field.
RouteAttrSerialize(attr, be) ==
    LET len == RouteAttrLen(attr)
    IN  IF len > U16Max
        THEN [ok |-> FALSE, bytes |-> <<>>]
        ELSE [ok |-> TRUE,
              bytes |-> NeBytes(len, 2, be) \o NeBytes(attr.rta_type, 2, be)
                        \o attr.payload \o Zeros(Align4(len) - len)]

\* RouteAttrs::from(region): walk the region, yield every complete attribute
RECURSIVE RouteAttrsFrom(_, _)
RouteAttrsFrom(region, be) ==
    IF Len(region) < RT_ATTR_HDR_SIZE
    THEN <<>>
    ELSE LET len == FromNe(Slice(region, 1, 2), be)
             typ == FromNe(Slice(region, 3, 2), be)
         IN  IF len < RT_ATTR_HDR_SIZE \/ len > Len(region)
             THEN <<>>
             ELSE <<RouteAttrNew(typ, SubSeq(region, RT_ATTR_HDR_SIZE + 1, len))>>
                  \o RouteAttrsFrom(SubSeq(region, Align4(len) + 1, Len(region)), be)

(***************************************************************************)
(* Message Envelope (core/message.rs: Message).                            *)
(***************************************************************************)
MessageNew(proto, flags) == [proto |-> proto, flags |-> flags, data |-> <<>>]

MessageAdd(m, bytes) == [m EXCEPT !.data = Append(@, bytes)]

NoMessage == [proto |-> 0, flags |-> 0, data |-> <<>>]

(***************************************************************************)
(* Rule Message Layout (types/message.rs: RouteMessage).                   *)
(***************************************************************************)
RouteMessageNew ==
    [family |-> 0, dst_len |-> 0, src_len |-> 0, tos |-> 0, table |-> 0,
     protocol |-> 0, scope |-> 0, route_type |-> 0, flags |-> 0]

\* eight one-byte fields followed by the 32-bit flags word
RouteMessageSerialize(msg, be) ==
    <<msg.family, msg.dst_len, msg.src_len, msg.tos, msg.table,
      msg.protocol, msg.scope, msg.route_type>> \o NeBytes(msg.flags, 4, be)

(***************************************************************************)
(* Rule Encoder: RuleHandle::handle, step by step (handle/rule.rs).        *)
(***************************************************************************)
\* variant: the unicast default taken whatever the request flags are
DefaultRouteType_AnyRequest(rule_type, flags) ==
    IF rule_type = 0 THEN RTN_UNICAST ELSE rule_type

\* msg.route_type = rule.rule_type, defaulted to unicast on a create request
DefaultRouteType(rule_type, flags) ==
    IF rule_type = 0 /\ BitAnd(flags, NLM_F_CREATE) > 0 THEN RTN_UNICAST ELSE rule_type

\* if rule.invert { msg.flags |= FIB_RULE_INVERT }
InvertFlags(flags, invert) == IF invert THEN BitOr(flags, FIB_RULE_INVERT) ELSE flags

\* variant: rule.family never applied to the layout
LayoutFamily_Ignored(rule_family) == AF_INET

\* msg.family = AF_INET, overridden by a nonzero rule.family
LayoutFamily(rule_family) == IF rule_family # 0 THEN AsU8(rule_family) ELSE AF_INET

\* variant: the table truncated into the byte instead of left unspecified
LayoutTable_Truncating(table) == IF table >= 0 THEN AsU8(table) ELSE RT_TABLE_UNSPEC

\* the one-byte table field
LayoutTable(table) == IF table >= 0 /\ table < 256 THEN AsU8(table) ELSE RT_TABLE_UNSPEC

LayoutTos(old, tos) == IF tos # 0 THEN AsU8(tos) ELSE old

\* variant: both arms of the match yield AF_INET
NetFamily_AlwaysInet(net) == AF_INET

\* match on IpNet: (family, address octets)
NetFamily(net) == IF net.kind = "V4" THEN AF_INET ELSE AF_INET6

\* variant: the comparison made against the destination's own family
FamilyMismatch_SelfCompare(dst_family, src_family) == dst_family # 0 /\ dst_family # dst_family

\* the source prefix is of another family than the destination prefix
FamilyMismatch(dst_family, src_family) == dst_family # 0 /\ dst_family # src_family

\* the table does not fit the layout byte and travels as a TLV
WideTableAttrs(table, be) ==
    Opt(table >= 256, RouteAttrNew(15, NeBytes(table, 4, be)))

\* variant: the suppress block keyed on the rule's logical table
SuppressAttrs_ByRuleTable(msg_table, r, be) ==
    IF r.table > 0
    THEN Opt(r.suppress_prefixlen >= 0,
             RouteAttrNew(14, NeBytes(r.suppress_prefixlen, 4, be)))
         \o Opt(r.suppress_ifgroup >= 0,
                RouteAttrNew(13, NeBytes(r.suppress_ifgroup, 4, be)))
    ELSE <<>>

\* the suppress block is keyed on the layout's table byte
SuppressAttrs(msg_table, r, be) ==
    IF msg_table > 0
    THEN Opt(r.suppress_prefixlen >= 0,
             RouteAttrNew(14, NeBytes(r.suppress_prefixlen, 4, be)))
         \o Opt(r.suppress_ifgroup >= 0,
                RouteAttrNew(13, NeBytes(r.suppress_ifgroup, 4, be)))
    ELSE <<>>

\* variant: the goto attribute emitted without forcing the action code
GotoRouteType_NotForced(route_type, goto) == route_type

\* if rule.goto >= 0 { msg.route_type = 2; ... }
GotoRouteType(route_type, goto) == IF goto >= 0 THEN 2 ELSE route_type

GotoAttrs(goto, be) == Opt(goto >= 0, RouteAttrNew(4, NeBytes(goto, 4, be)))

PortRangeBytes(range, be) == NeBytes(range.start, 2, be) \o NeBytes(range.end, 2, be)

UIDRangeBytes(range, be) == NeBytes(range.start, 4, be) \o NeBytes(range.end, 4, be)

\* for attr in attrs { req.add(&attr.serialize()?) }
RECURSIVE AddAttrs(_, _, _)
AddAttrs(m, attrs, be) ==
    IF Len(attrs) = 0
    THEN [ok |-> TRUE, req |-> m]
    ELSE LET s == RouteAttrSerialize(Head(attrs), be)
         IN  IF ~s.ok
             THEN [ok |-> FALSE, req |-> m]
             ELSE AddAttrs(MessageAdd(m, s.bytes), Tail(attrs), be)

\* The body of handle up to, and not including, self.request(&mut req, 0):
\* [kind |-> "send", req |-> the request] or [kind |-> "err", err |-> ...].
handle(r, proto, flags, be) ==
    LET req0 == MessageNew(proto, flags)
        msg1 == [RouteMessageNew EXCEPT
                    !.family = LayoutFamily(r.family),
                    !.protocol = RTPROT_BOOT,
                    !.scope = RT_SCOPE_UNIVERSE,
                    !.table = LayoutTable(r.table),
                    !.route_type = DefaultRouteType(r.rule_type, flags),
                    !.flags = InvertFlags(@, r.invert),
                    !.tos = LayoutTos(@, r.tos)]
        hasDst == IsSome(r.dst)
        hasSrc == IsSome(r.src)
        dst_family == IF hasDst THEN NetFamily(Unwrap(r.dst)) ELSE 0
        msg2 == IF hasDst
                THEN [msg1 EXCEPT !.dst_len = Unwrap(r.dst).prefix_len,
                                  !.family = AsU8(dst_family)]
                ELSE msg1
        dstAttrs == Opt(hasDst, RouteAttrNew(RTA_DST, Unwrap(r.dst).addr))
        src_family == IF hasSrc THEN NetFamily(Unwrap(r.src)) ELSE 0
        msg3 == IF hasSrc
                THEN [msg2 EXCEPT !.src_len = Unwrap(r.src).prefix_len,
                                  !.family = AsU8(src_family)]
                ELSE msg2
        srcAttrs == Opt(hasSrc, RouteAttrNew(RTA_SRC, Unwrap(r.src).addr))
        msg == [msg3 EXCEPT !.route_type = GotoRouteType(@, r.goto)]
        attrs ==
            dstAttrs \o srcAttrs
            \o Opt(r.priority >= 0, RouteAttrNew(6, NeBytes(r.priority, 4, be)))
            \o Opt(r.mark # 0 \/ IsSome(r.mask), RouteAttrNew(10, NeBytes(r.mark, 4, be)))
            \o Opt(IsSome(r.mask), RouteAttrNew(10, NeBytes(Unwrap(r.mask), 4, be)))
            \o Opt(r.flow >= 0, RouteAttrNew(11, NeBytes(r.flow, 4, be)))
            \o Opt(r.tun_id > 0, RouteAttrNew(12, NeBytes(r.tun_id, 4, be)))
            \o WideTableAttrs(r.table, be)
            \o SuppressAttrs(msg3.table, r, be)
            \o Opt(Len(r.iif_name) # 0, RouteAttrNew(3, r.iif_name))
            \o Opt(Len(r.oif_name) # 0, RouteAttrNew(17, r.oif_name))
            \o GotoAttrs(r.goto, be)
            \o Opt(r.ip_proto > 0, RouteAttrNew(22, NeBytes(r.ip_proto, 4, be)))
            \o Opt(IsSome(r.dport), RouteAttrNew(24, PortRangeBytes(Unwrap(r.dport), be)))
            \o Opt(IsSome(r.sport), RouteAttrNew(23, PortRangeBytes(Unwrap(r.sport), be)))
            \o Opt(IsSome(r.uid_range), RouteAttrNew(20, UIDRangeBytes(Unwrap(r.uid_range), be)))
            \o Opt(r.protocol > 0, RouteAttrNew(21, <<r.protocol>>))
        added == AddAttrs(MessageAdd(req0, RouteMessageSerialize(msg, be)), attrs, be)
    IN  IF hasSrc /\ FamilyMismatch(dst_family, src_family)
        THEN [kind |-> "err", err |-> "MixedFamily", req |-> NoMessage]
        ELSE IF ~added.ok
        THEN [kind |-> "err", err |-> "SerializationOverflow", req |-> NoMessage]
        ELSE [kind |-> "send", err |-> "", req |-> added.req]

\* RuleHandle::add
AddFlags == BitOr(BitOr(NLM_F_CREATE, NLM_F_EXCL), NLM_F_ACK)

\* RuleHandle::del
DelFlags == NLM_F_ACK

(***************************************************************************)
(* Socket-Diagnostics Codec (types/sock_diag.rs).                          *)
(***************************************************************************)
V4Any == [kind |-> "V4", octets |-> <<0, 0, 0, 0>>]

SockDiagIdDefault ==
    [src_port |-> 0, dst_port |-> 0, src_ip |-> V4Any, dst_ip |-> V4Any,
     interface |-> 0, cookie |-> <<0, 0>>]

\* SockDiagReq::request_tcp_info
request_tcp_info(fam) ==
    [family |-> fam, protocol |-> IPPROTO_TCP,
     ext |-> BitOr(Pow2(INET_DIAG_VEGASINFO - 1), Pow2(INET_DIAG_INFO - 1)),
     pad |-> 0, states |-> 4095, id |-> SockDiagIdDefault]

\* SockDiagReq::request_udp_info
request_udp_info(fam) ==
    [family |-> fam, protocol |-> IPPROTO_UDP,
     ext |-> BitOr(BitOr(Pow2(INET_DIAG_VEGASINFO - 1), Pow2(INET_DIAG_INFO - 1)),
                   Pow2(INET_DIAG_MEMINFO - 1)),
     pad |-> 0, states |-> 4095, id |-> SockDiagIdDefault]

\* Attribute::serialize for SockDiagReq
SockDiagReqSerialize(m, be) ==
    LET head == <<m.family, m.protocol, m.ext, m.pad>> \o NeBytes(m.states, 4, be)
                \o BeBytes(m.id.src_port, 2) \o BeBytes(m.id.dst_port, 2)
        tail == NeBytes(m.id.interface, 4, be) \o NeBytes(m.id.cookie[1], 4, be)
                \o NeBytes(m.id.cookie[2], 4, be)
    IN  IF m.id.src_ip.kind = "V4" /\ m.id.dst_ip.kind = "V4"
        THEN [ok |-> TRUE,
              bytes |-> head \o Zeros(12) \o m.id.src_ip.octets
                        \o Zeros(12) \o m.id.dst_ip.octets \o tail]
        ELSE IF m.id.src_ip.kind = "V6" /\ m.id.dst_ip.kind = "V6"
        THEN [ok |-> TRUE,
              bytes |-> head \o m.id.src_ip.octets \o m.id.dst_ip.octets \o tail]
        ELSE [ok |-> FALSE, bytes |-> <<>>]

SockDiagDefault ==
    [family |-> 0, state |-> 0, timer |-> 0, retrans |-> 0, id |-> SockDiagIdDefault,
     expires |-> 0, rqueue |-> 0, wqueue |-> 0, uid |-> 0, inode |-> 0]

\* SockDiag::deserialize: the fixed 72-byte header, read front to back
SockDiagDeserialize(buf, be) ==
    IF Len(buf) < SockDiagLEN
    THEN [ok |-> FALSE, msg |-> SockDiagDefault]
    ELSE [ok |-> TRUE,
          msg |-> [family |-> buf[1], state |-> buf[2], timer |-> buf[3],
                   retrans |-> buf[4],
                   id |-> [src_port |-> FromBe(Slice(buf, 5, 2)),
                           dst_port |-> FromBe(Slice(buf, 7, 2)),
                           src_ip |-> [kind |-> "V4", octets |-> Slice(buf, 9, 4)],
                           dst_ip |-> [kind |-> "V4", octets |-> Slice(buf, 25, 4)],
                           interface |-> FromNe(Slice(buf, 41, 4), be),
                           cookie |-> <<FromNe(Slice(buf, 45, 4), be),
                                        FromNe(Slice(buf, 49, 4), be)>>],
                   expires |-> FromNe(Slice(buf, 53, 4), be),
                   rqueue |-> FromNe(Slice(buf, 57, 4), be),
                   wqueue |-> FromNe(Slice(buf, 61, 4), be),
                   uid |-> FromNe(Slice(buf, 65, 4), be),
                   inode |-> FromNe(Slice(buf, 69, 4), be)]]

\* field widths, in declaration order, of the fixed-layout records
Rep(w, n) == [i \in 1..n |-> w]

TcpDiagWidths ==
    Rep(1, 8) \o Rep(4, 24) \o Rep(8, 4) \o Rep(4, 6) \o Rep(8, 4)
    \o Rep(4, 2) \o Rep(8, 2) \o Rep(4, 4)

TcpBbrDiagWidths == <<8, 4, 4, 4>>

MemoryWidths == <<4, 4, 4, 4>>

RECURSIVE Sum(_)
Sum(ws) == IF Len(ws) = 0 THEN 0 ELSE Head(ws) + Sum(Tail(ws))

\* Default::default() of a fixed-layout record: every field zero
RecordDefault(widths) == [i \in 1..Len(widths) |-> 0]

RECURSIVE BincodeFields(_, _)
BincodeFields(widths, bytes) ==
    IF Len(widths) = 0
    THEN <<>>
    ELSE <<FromLe(SubSeq(bytes, 1, Head(widths)))>>
         \o BincodeFields(Tail(widths), SubSeq(bytes, Head(widths) + 1, Len(bytes)))

\* bincode::deserialize into a record of fixed-width integers: fields are
\* read in order, little-endian, trailing bytes are left alone, and input
\* that ends early is an error
BincodeDeserialize(widths, bytes) ==
    IF Len(bytes) < Sum(widths)
    THEN [ok |-> FALSE, value |-> RecordDefault(widths)]
    ELSE [ok |-> TRUE, value |-> BincodeFields(widths, bytes)]

\* match attr.header.rta_type as u8
AttrKind(rta_type) == AsU8(rta_type)

\* the attribute loop of From<&[u8]> for InetDiagTcpResp
RECURSIVE TcpApplyAttrs(_, _)
TcpApplyAttrs(resp, attrs) ==
    IF Len(attrs) = 0
    THEN [panic |-> FALSE, resp |-> resp]
    ELSE LET attr == Head(attrs)
             kind == AttrKind(attr.rta_type)
         IN  IF kind = INET_DIAG_INFO
             THEN LET d == BincodeDeserialize(TcpDiagWidths, attr.payload)
                  IN  IF ~d.ok THEN [panic |-> TRUE, resp |-> resp]
                      ELSE TcpApplyAttrs([resp EXCEPT !.tcp_diag = d.value], Tail(attrs))
             ELSE IF kind = INET_DIAG_BBRINFO
             THEN LET d == BincodeDeserialize(TcpBbrDiagWidths, attr.payload)
                  IN  IF ~d.ok THEN [panic |-> TRUE, resp |-> resp]
                      ELSE TcpApplyAttrs([resp EXCEPT !.tcp_bbr = d.value], Tail(attrs))
             ELSE TcpApplyAttrs(resp, Tail(attrs))

\* the attribute loop of From<&[u8]> for InetDiagUdpResp
RECURSIVE UdpApplyAttrs(_, _)
UdpApplyAttrs(resp, attrs) ==
    IF Len(attrs) = 0
    THEN [panic |-> FALSE, resp |-> resp]
    ELSE LET attr == Head(attrs)
             kind == AttrKind(attr.rta_type)
         IN  IF kind = INET_DIAG_MEMINFO
             THEN LET d == BincodeDeserialize(MemoryWidths, attr.payload)
                  IN  IF ~d.ok THEN [panic |-> TRUE, resp |-> resp]
                      ELSE UdpApplyAttrs([resp EXCEPT !.memory = d.value], Tail(attrs))
             ELSE UdpApplyAttrs(resp, Tail(attrs))

InetDiagTcpRespDefault ==
    [msg |-> SockDiagDefault, tcp_diag |-> RecordDefault(TcpDiagWidths),
     tcp_bbr |-> RecordDefault(TcpBbrDiagWidths)]

InetDiagUdpRespDefault ==
    [msg |-> SockDiagDefault, memory |-> RecordDefault(MemoryWidths)]

\* From<&[u8]> for InetDiagTcpResp; the unwraps panic
InetDiagTcpRespFrom(buf, be) ==
    LET h == SockDiagDeserialize(buf, be)
    IN  IF ~h.ok
        THEN [panic |-> TRUE, resp |-> InetDiagTcpRespDefault]
        ELSE TcpApplyAttrs([InetDiagTcpRespDefault EXCEPT !.msg = h.msg],
                           RouteAttrsFrom(SubSeq(buf, SockDiagLEN + 1, Len(buf)), be))

\* From<&[u8]> for InetDiagUdpResp; the unwraps panic
InetDiagUdpRespFrom(buf, be) ==
    LET h == SockDiagDeserialize(buf, be)
    IN  IF ~h.ok
        THEN [panic |-> TRUE, resp |-> InetDiagUdpRespDefault]
        ELSE UdpApplyAttrs([InetDiagUdpRespDefault EXCEPT !.msg = h.msg],
                           RouteAttrsFrom(SubSeq(buf, SockDiagLEN + 1, Len(buf)), be))

\* resp.iter().map(|b| From::from(b)).collect(): a panic in any element
\* unwinds out of the whole call
RECURSIVE MapFrom(_, _, _)
MapFrom(tcp, bufs, be) ==
    IF Len(bufs) = 0
    THEN [panic |-> FALSE, records |-> <<>>]
    ELSE LET first == IF tcp THEN InetDiagTcpRespFrom(Head(bufs), be)
                      ELSE InetDiagUdpRespFrom(Head(bufs), be)
         IN  IF first.panic
             THEN [panic |-> TRUE, records |-> <<>>]
             ELSE LET rest == MapFrom(tcp, Tail(bufs), be)
                  IN  [panic |-> rest.panic,
                       records |-> IF rest.panic THEN <<>>
                                   ELSE <<first.resp>> \o rest.records]

(***************************************************************************)
(* Inputs: the rules a caller passes, the buffers the kernel answers with. *)
(***************************************************************************)
V4Net == [kind |-> "V4", addr |-> <<10, 1, 0, 0>>, prefix_len |-> 16]

V6Net == [kind |-> "V6", addr |-> <<253, 0>> \o Zeros(14), prefix_len |-> 8]

\* Rule::new(): priority, goto, flow and the suppress fields at -1
DefaultRule ==
    [priority |-> -1, family |-> 0, table |-> 0, mark |-> 0, mask |-> None,
     tos |-> 0, tun_id |-> 0, goto |-> -1, src |-> None, dst |-> None,
     flow |-> -1, iif_name |-> <<>>, oif_name |-> <<>>,
     suppress_ifgroup |-> -1, suppress_prefixlen |-> -1, invert |-> FALSE,
     dport |-> None, sport |-> None, ip_proto |-> 0, uid_range |-> None,
     protocol |-> 0, rule_type |-> 0]

\* every other field present at once
FullRule ==
    [DefaultRule EXCEPT
        !.priority = 100, !.mark = 7, !.mask = Some(255), !.tos = 4,
        !.tun_id = 9, !.flow = 3, !.iif_name = <<101, 116, 104, 48>>,
        !.oif_name = <<108, 111>>, !.invert = TRUE,
        !.dport = Some([start |-> 80, end |-> 443]),
        !.sport = Some([start |-> 1024, end |-> 2048]), !.ip_proto = 6,
        !.uid_range = Some([start |-> 1000, end |-> 2000]), !.protocol = 2]

\* some of them present
PartRule ==
    [DefaultRule EXCEPT
        !.priority = 0, !.mark = 7, !.flow = 0, !.oif_name = <<108, 111, 48>>,
        !.sport = Some([start |-> 53, end |-> 53]), !.protocol = 255]

Profiles == {DefaultRule, FullRule, PartRule}

Tables == {-1, 0, 100, 255, 256, 300}

SuppressPrefixlens == {-1, 0, 5}

SuppressIfgroups == {-1, 3}

Gotos == {-1, 0, 42}

RuleTypes == {0, 2, 6}

Families == {0, AF_INET6}

Nets == {None, Some(V4Net), Some(V6Net)}

CoreRules ==
    {[base EXCEPT !.table = t, !.suppress_prefixlen = sp, !.suppress_ifgroup = si,
                  !.goto = g, !.rule_type = rt, !.family = f, !.src = s, !.dst = d] :
        base \in Profiles, t \in Tables, sp \in SuppressPrefixlens,
        si \in SuppressIfgroups, g \in Gotos, rt \in RuleTypes, f \in Families,
        s \in Nets, d \in Nets}

\* interface names at the edge of what a 16-bit attribute length can hold
EdgeRules ==
    {[DefaultRule EXCEPT !.iif_name = [i \in 1..n |-> 120]] :
        n \in {U16Max - RT_ATTR_HDR_SIZE, U16Max - RT_ATTR_HDR_SIZE + 1}}

\* explicit families, also one that does not fit the layout byte, with and
\* without prefixes
FamilyRules ==
    {[DefaultRule EXCEPT !.family = f, !.src = s, !.dst = d] :
        f \in {AF_INET, AF_INET6 + 256}, s \in Nets, d \in Nets}

Rules == CoreRules \cup EdgeRules \cup FamilyRules

DiagFamilies == {AF_INET, AF_INET6}

TransportErrors == {"KernelRejected", "IoError"}

MaxAttrs == 2           \* most attributes behind one reply header

SeqsUpTo(S, n) == UNION {[1..k -> S] : k \in 0..n}

\* a reply header as the kernel lays it out on this host
DiagHeader(fam, be) ==
    <<fam, 1, 0, 0>> \o BeBytes(8080, 2) \o BeBytes(443, 2)
    \o <<127, 0, 0, 1>> \o Zeros(12) \o <<10, 0, 0, 2>> \o Zeros(12)
    \o NeBytes(3, 4, be) \o NeBytes(11, 4, be) \o NeBytes(12, 4, be)
    \o NeBytes(0, 4, be) \o NeBytes(5, 4, be) \o NeBytes(6, 4, be)
    \o NeBytes(1000, 4, be) \o NeBytes(4242, 4, be)

\* payload bytes: a nonzero low byte every eight bytes
DiagPayload(n) == [i \in 1..n |-> IF i % 8 = 1 THEN 1 + (i \div 8) ELSE 0]

DiagTypes == {INET_DIAG_MEMINFO, INET_DIAG_INFO, INET_DIAG_VEGASINFO,
              INET_DIAG_BBRINFO, 258}

DiagPayloadLens == {4, Sum(TcpBbrDiagWidths), Sum(TcpDiagWidths)}

DiagAttrs == {RouteAttrNew(t, DiagPayload(n)) : t \in DiagTypes, n \in DiagPayloadLens}

RECURSIVE SerializeAttrs(_, _)
SerializeAttrs(attrs, be) ==
    IF Len(attrs) = 0 THEN <<>>
    ELSE RouteAttrSerialize(Head(attrs), be).bytes \o SerializeAttrs(Tail(attrs), be)

DiagBuffer(fam, attrs, be) == DiagHeader(fam, be) \o SerializeAttrs(attrs, be)

\* every length below the fixed header
ShortBuffers(be) == {SubSeq(DiagHeader(AF_INET, be), 1, n) : n \in 0..(SockDiagLEN - 1)}

FullBuffers(be) == {DiagBuffer(AF_INET, attrs, be) : attrs \in SeqsUpTo(DiagAttrs, MaxAttrs)}

\* buffers a dump of several replies is made of
DumpBuffers(be) ==
    {DiagBuffer(AF_INET, <<>>, be),
     DiagBuffer(AF_INET, <<RouteAttrNew(INET_DIAG_INFO, DiagPayload(Sum(TcpDiagWidths)))>>, be),
     DiagBuffer(AF_INET, <<RouteAttrNew(INET_DIAG_MEMINFO, DiagPayload(Sum(MemoryWidths)))>>, be),
     SubSeq(DiagHeader(AF_INET, be), 1, SockDiagLEN - 1)}

Dumps(be) ==
    {<<b>> : b \in ShortBuffers(be) \cup FullBuffers(be)}
    \cup SeqsUpTo(DumpBuffers(be), MaxReplies)

TlvTypes == {0, 1, 258, U16Max}

TlvPayloads == SeqsUpTo({0, 7, 255}, MaxPayloadLen)

(***************************************************************************)
(* The state machine.                                                      *)
(***************************************************************************)
NoResult == [kind |-> "none", err |-> "", records |-> <<>>]

NoTlv == [rta_type |-> 0, payload |-> <<>>, ok |-> FALSE, wire |-> <<>>, decoded |-> <<>>]

Init ==
    /\ pc = "idle"
    /\ op = "none"
    /\ rule = DefaultRule
    /\ family = 0
    /\ hostBE \in BOOLEAN
    /\ req = NoMessage
    /\ requests = 0
    /\ replies = <<>>
    /\ result = NoResult
    /\ tlv = NoTlv

\* a rule operation up to its transport call, or to its local failure
RuleCall(name, r, proto, flags) ==
    /\ LET h == handle(r, proto, flags, hostBE)
       IN  /\ op' = name
           /\ rule' = r
           /\ IF h.kind = "err"
              THEN /\ pc' = "done"
                   /\ result' = [kind |-> "err", err |-> h.err, records |-> <<>>]
                   /\ UNCHANGED <<req, requests>>
              ELSE /\ pc' = "awaiting"
                   /\ req' = h.req
                   /\ requests' = requests + 1
                   /\ UNCHANGED result
    /\ UNCHANGED <<family, hostBE, replies, tlv>>

\* RuleHandle::add
Add ==
    /\ pc = "idle"
    /\ \E r \in Rules : RuleCall("add", r, RTM_NEWRULE, AddFlags)

\* RuleHandle::del
Del ==
    /\ pc = "idle"
    /\ \E r \in Rules : RuleCall("del", r, RTM_DELRULE, DelFlags)

\* a diagnostics query up to its transport call
DiagCall(name, fam, msg) ==
    /\ LET s == SockDiagReqSerialize(msg, hostBE)
       IN  /\ op' = name
           /\ family' = fam
           /\ IF ~s.ok
              THEN /\ pc' = "done"
                   /\ result' = [kind |-> "err", err |-> "invaild", records |-> <<>>]
                   /\ UNCHANGED <<req, requests>>
              ELSE /\ pc' = "awaiting"
                   /\ req' = MessageAdd(MessageNew(SOCK_DIAG_BY_FAMILY, NLM_F_DUMP), s.bytes)
                   /\ requests' = requests + 1
                   /\ UNCHANGED result
    /\ UNCHANGED <<rule, hostBE, replies, tlv>>

\* SockDiagHandle::tcp_info
TcpInfo ==
    /\ pc = "idle"
    /\ \E fam \in DiagFamilies : DiagCall("tcp_info", fam, request_tcp_info(fam))

\* SockDiagHandle::udp_info
UdpInfo ==
    /\ pc = "idle"
    /\ \E fam \in DiagFamilies : DiagCall("udp_info", fam, request_udp_info(fam))

\* self.request(..)? fails: the error goes to the caller unchanged
TransportFail ==
    /\ pc = "awaiting"
    /\ \E e \in TransportErrors :
          result' = [kind |-> "err", err |-> e, records |-> <<>>]
    /\ pc' = "done"
    /\ UNCHANGED <<op, rule, family, hostBE, req, requests, replies, tlv>>

\* self.request(&mut req, 0)? acknowledges a rule request: Ok(())
TransportAck ==
    /\ pc = "awaiting"
    /\ op \in {"add", "del"}
    /\ result' = [kind |-> "ok", err |-> "", records |-> <<>>]
    /\ pc' = "done"
    /\ UNCHANGED <<op, rule, family, hostBE, req, requests, replies, tlv>>

\* self.request(&mut req, SOCK_DIAG_BY_FAMILY)? returns the reply buffers and
\* each is turned into a record
TransportDump ==
    /\ pc = "awaiting"
    /\ op \in {"tcp_info", "udp_info"}
    /\ \E bufs \in Dumps(hostBE) :
          LET m == MapFrom(op = "tcp_info", bufs, hostBE)
          IN  /\ replies' = bufs
              /\ result' = IF m.panic
                           THEN [kind |-> "panic", err |-> "", records |-> <<>>]
                           ELSE [kind |-> "ok", err |-> "", records |-> m.records]
    /\ pc' = "done"
    /\ UNCHANGED <<op, rule, family, hostBE, req, requests, tlv>>

\* one attribute through the codec: serialize, then walk the bytes
TlvRoundTrip ==
    /\ pc = "idle"
    /\ \E t \in TlvTypes, p \in TlvPayloads :
          LET s == RouteAttrSerialize(RouteAttrNew(t, p), hostBE)
          IN  tlv' = [rta_type |-> t, payload |-> p, ok |-> s.ok, wire |-> s.bytes,
                      decoded |-> RouteAttrsFrom(s.bytes, hostBE)]
    /\ op' = "tlv"
    /\ pc' = "done"
    /\ UNCHANGED <<rule, family, hostBE, req, requests, replies, result>>

\* the call is over; nothing of it is kept
Return ==
    /\ pc = "done"
    /\ pc' = "idle"
    /\ op' = "none"
    /\ rule' = DefaultRule
    /\ family' = 0
    /\ req' = NoMessage
    /\ requests' = 0
    /\ replies' = <<>>
    /\ result' = NoResult
    /\ tlv' = NoTlv
    /\ UNCHANGED hostBE

Next ==
    \/ Add
    \/ Del
    \/ TcpInfo
    \/ UdpInfo
    \/ TransportFail
    \/ TransportAck
    \/ TransportDump
    \/ TlvRoundTrip
    \/ Return

Spec == Init /\ [][Next]_vars

(***************************************************************************)
(* Vocabulary of the properties.                                           *)
(***************************************************************************)
RuleOps == {"add", "del"}

DiagOps == {"tcp_info", "udp_info"}

PublicOps == RuleOps \cup DiagOps

\* src and dst are both present and of different address families
MixedFamilyRule(r) ==
    IsSome(r.src) /\ IsSome(r.dst) /\ Unwrap(r.src).kind # Unwrap(r.dst).kind

\* an interface name that cannot be framed by a 16-bit attribute length
OversizedRule(r) ==
    \/ Len(r.iif_name) + RT_ATTR_HDR_SIZE > U16Max
    \/ Len(r.oif_name) + RT_ATTR_HDR_SIZE > U16Max

\* a rule request has been handed to the transport
RuleSent == op \in RuleOps /\ requests > 0

\* the first segment of the request: the serialized layout
SentLayout == req.data[1]

\* the attribute list as a receiver decodes it from the remaining segments
SentAttrs == RouteAttrsFrom(Flatten(Tail(req.data)), hostBE)

OfType(attrs, t) == SelectSeq(attrs, LAMBDA a : a.rta_type = t)

\* exactly one attribute of type t, carrying v as a 32-bit value
OneU32(attrs, t, v) ==
    /\ Len(OfType(attrs, t)) = 1
    /\ OfType(attrs, t)[1].payload = NeBytes(v, 4, hostBE)

Positions(attrs, t) == {i \in 1..Len(attrs) : attrs[i].rta_type = t}

\* the table and route_type bytes of a serialized layout
TableOf(layout) == layout[5]

RouteTypeOf(layout) == layout[8]

\* the family byte of a serialized layout
FamilyOf(layout) == layout[1]

(***************************************************************************)
(* C1: a rule whose src and dst are prefixes of different address families *)
(* makes add and del fail with the mixed-family error, and the transport's *)
(* request operation is not invoked during that call.                      *)
(***************************************************************************)
C1_MixedFamilyFailsBeforeTransport ==
    (op \in RuleOps /\ MixedFamilyRule(rule)) =>
        /\ pc = "done"
        /\ result.kind = "err"
        /\ result.err = "MixedFamily"
        /\ requests = 0
        /\ req = NoMessage

C1_Witness ==
    /\ op = "del"
    /\ pc = "done"
    /\ MixedFamilyRule(rule)
    /\ Unwrap(rule.src).kind = "V4"
    /\ rule.table = 300
    /\ result.kind = "err"

(***************************************************************************)
(* C2: a reply buffer shorter than the 72-byte header makes tcp_info and   *)
(* udp_info end in an error value reported to the caller.                  *)
(***************************************************************************)
C2_ShortReadReported ==
    (/\ pc = "done"
     /\ op \in DiagOps
     /\ \E i \in 1..Len(replies) : Len(replies[i]) < SockDiagLEN)
    => result.kind = "err"

(***************************************************************************)
(* C3 as stated: every call of a public operation invokes the transport's  *)
(* request operation exactly once.                                         *)
(***************************************************************************)
C3_ExactlyOneRoundTrip ==
    (pc = "done" /\ op \in PublicOps) => requests = 1

(***************************************************************************)
(* C3 as amended: a call invokes the transport's request operation at most *)
(* once; it invokes it zero times exactly when it is an add or del that    *)
(* fails locally (mixed-family src/dst, or an attribute too long for the   *)
(* 16-bit length), and that call ends in an error.                         *)
(***************************************************************************)
C3_AtMostOneRoundTrip ==
    (op \in PublicOps) =>
        /\ requests <= 1
        /\ requests = 0 <=> (op \in RuleOps /\ (MixedFamilyRule(rule) \/ OversizedRule(rule)))
        /\ requests = 0 => (pc = "done" /\ result.kind = "err")
        /\ (pc = "done" /\ result.kind \in {"ok", "panic"}) => requests = 1

C3_Witness ==
    /\ pc = "done"
    /\ op = "add"
    /\ requests = 1
    /\ result.kind = "ok"
    /\ IsSome(rule.src)
    /\ IsSome(rule.dst)

(***************************************************************************)
(* C4: a table of 256 or more travels as exactly one type-15 attribute     *)
(* carrying the table as a 32-bit value while the layout's table byte is   *)
(* the unspecified default 0; a table in 0..255 is the layout's table byte *)
(* and no type-15 attribute is emitted; a negative table sets neither.     *)
(***************************************************************************)
C4_WideTable ==
    RuleSent =>
        /\ rule.table >= 256 =>
              /\ OneU32(SentAttrs, 15, rule.table)
              /\ TableOf(SentLayout) = RT_TABLE_UNSPEC
        /\ (rule.table >= 0 /\ rule.table < 256) =>
              /\ TableOf(SentLayout) = rule.table
              /\ OfType(SentAttrs, 15) = <<>>
        /\ rule.table < 0 =>
              /\ TableOf(SentLayout) = RT_TABLE_UNSPEC
              /\ OfType(SentAttrs, 15) = <<>>

C4_Witness ==
    /\ RuleSent
    /\ rule.table = 300
    /\ OneU32(SentAttrs, 15, 300)
    /\ TableOf(SentLayout) = 0

(***************************************************************************)
(* C5: a type-14 attribute is emitted exactly when the table is in 1..255  *)
(* and suppress_prefixlen >= 0, a type-13 attribute exactly when the table *)
(* is in 1..255 and suppress_ifgroup >= 0; each carries its value as 32    *)
(* bits, and type 14 comes before type 13 when both are emitted.           *)
(***************************************************************************)
C5_SuppressBlock ==
    RuleSent =>
        LET narrow == rule.table >= 1 /\ rule.table <= 255
        IN  /\ IF narrow /\ rule.suppress_prefixlen >= 0
               THEN OneU32(SentAttrs, 14, rule.suppress_prefixlen)
               ELSE OfType(SentAttrs, 14) = <<>>
            /\ IF narrow /\ rule.suppress_ifgroup >= 0
               THEN OneU32(SentAttrs, 13, rule.suppress_ifgroup)
               ELSE OfType(SentAttrs, 13) = <<>>
            /\ \A i \in Positions(SentAttrs, 14), j \in Positions(SentAttrs, 13) : i < j

C5_Witness ==
    /\ RuleSent
    /\ rule.table = 100
    /\ rule.suppress_prefixlen = 5
    /\ rule.suppress_ifgroup = 3
    /\ OneU32(SentAttrs, 14, 5)
    /\ OneU32(SentAttrs, 13, 3)

(***************************************************************************)
(* C6: with goto >= 0 the layout's route_type byte is the goto action code *)
(* 2 and exactly one type-4 attribute carries goto as 32 bits, whatever    *)
(* rule_type and the operation are; with goto < 0 there is no type-4       *)
(* attribute and route_type is 2 only if the rule's own rule_type is 2.    *)
(***************************************************************************)
C6_Goto ==
    RuleSent =>
        /\ rule.goto >= 0 =>
              /\ RouteTypeOf(SentLayout) = 2
              /\ OneU32(SentAttrs, 4, rule.goto)
        /\ rule.goto < 0 =>
              /\ OfType(SentAttrs, 4) = <<>>
              /\ RouteTypeOf(SentLayout) = 2 => rule.rule_type = 2

C6_Witness ==
    /\ RuleSent
    /\ op = "del"
    /\ rule.goto = 42
    /\ rule.rule_type = 6
    /\ RouteTypeOf(SentLayout) = 2

(***************************************************************************)
(* C7: when a diagnostics reply is parsed, a record is populated only from *)
(* an attribute whose 16-bit type is exactly its code (basic info 2, BBR   *)
(* info 16, memory info 1); with no such attribute in the reply the record *)
(* is left as it was, at its default.                                      *)
(***************************************************************************)
ReplyAttrs(i) ==
    RouteAttrsFrom(SubSeq(replies[i], SockDiagLEN + 1, Len(replies[i])), hostBE)

C7_OnlyExactTypePopulates ==
    (pc = "done" /\ op \in DiagOps /\ result.kind = "ok") =>
        \A i \in 1..Len(replies) :
            /\ op = "tcp_info" =>
                  /\ (OfType(ReplyAttrs(i), INET_DIAG_INFO) = <<>>
                        => result.records[i].tcp_diag = RecordDefault(TcpDiagWidths))
                  /\ (OfType(ReplyAttrs(i), INET_DIAG_BBRINFO) = <<>>
                        => result.records[i].tcp_bbr = RecordDefault(TcpBbrDiagWidths))
            /\ op = "udp_info" =>
                  (OfType(ReplyAttrs(i), INET_DIAG_MEMINFO) = <<>>
                        => result.records[i].memory = RecordDefault(MemoryWidths))

(***************************************************************************)
(* C8: a reply of at least 72 bytes whose basic-info, BBR-info or          *)
(* memory-info attribute is too short for its fixed-layout record makes    *)
(* tcp_info / udp_info end in an error value reported to the caller.       *)
(***************************************************************************)
ShortAttr(i, t, widths) ==
    \E k \in 1..Len(ReplyAttrs(i)) :
        /\ ReplyAttrs(i)[k].rta_type = t
        /\ Len(ReplyAttrs(i)[k].payload) < Sum(widths)

C8_ShortPayloadReported ==
    (/\ pc = "done"
     /\ op \in DiagOps
     /\ \A i \in 1..Len(replies) : Len(replies[i]) >= SockDiagLEN
     /\ \E i \in 1..Len(replies) :
           IF op = "tcp_info"
           THEN \/ ShortAttr(i, INET_DIAG_INFO, TcpDiagWidths)
                \/ ShortAttr(i, INET_DIAG_BBRINFO, TcpBbrDiagWidths)
           ELSE ShortAttr(i, INET_DIAG_MEMINFO, MemoryWidths))
    => result.kind = "err"

(***************************************************************************)
(* C9: serializing one attribute and walking the bytes yields exactly that *)
(* attribute, type and payload, for payloads needing 0, 1, 2 or 3 padding  *)
(* bytes; the encoded size is a multiple of 4 and the length in the header *)
(* is 4 plus the payload length, padding not counted.                      *)
(***************************************************************************)
C9_TlvRoundTrip ==
    op = "tlv" =>
        /\ tlv.ok
        /\ tlv.decoded = <<RouteAttrNew(tlv.rta_type, tlv.payload)>>
        /\ Len(tlv.wire) % 4 = 0
        /\ Len(tlv.wire) - (RT_ATTR_HDR_SIZE + Len(tlv.payload)) \in 0..3
        /\ FromNe(Slice(tlv.wire, 1, 2), hostBE) = RT_ATTR_HDR_SIZE + Len(tlv.payload)

C9_Witness ==
    /\ op = "tlv"
    /\ tlv.rta_type = 258
    /\ Len(tlv.payload) = 5
    /\ Len(tlv.wire) = 12
    /\ Len(tlv.decoded) = 1

(***************************************************************************)
(* C10: with goto < 0, a rule of rule_type 0 is serialized with route_type *)
(* unicast (1) by add and with route_type 0 by del; a rule of nonzero      *)
(* rule_type is serialized with route_type = rule_type by both.            *)
(***************************************************************************)
C10_RouteTypeDefault ==
    (RuleSent /\ rule.goto < 0) =>
        /\ (rule.rule_type = 0 /\ op = "add") => RouteTypeOf(SentLayout) = RTN_UNICAST
        /\ (rule.rule_type = 0 /\ op = "del") => RouteTypeOf(SentLayout) = 0
        /\ rule.rule_type # 0 => RouteTypeOf(SentLayout) = rule.rule_type
        /\ op = "add" => BitAnd(req.flags, NLM_F_CREATE) > 0
        /\ op = "del" => req.flags = NLM_F_ACK

C10_Witness ==
    /\ RuleSent
    /\ op = "del"
    /\ rule.goto < 0
    /\ rule.rule_type = 0
    /\ RouteTypeOf(SentLayout) = 0

(***************************************************************************)
(* C11 as stated: a nonzero rule.family is the family byte of the          *)
(* serialized layout of every rule that is encoded, and only with          *)
(* rule.family = 0 is the family taken from the src/dst prefix, or left at *)
(* IPv4 when neither is present.                                           *)
(***************************************************************************)
PrefixFamily(r) ==
    IF IsSome(r.src) THEN (IF Unwrap(r.src).kind = "V4" THEN AF_INET ELSE AF_INET6)
    ELSE IF IsSome(r.dst) THEN (IF Unwrap(r.dst).kind = "V4" THEN AF_INET ELSE AF_INET6)
    ELSE AF_INET

C11_FamilyOverrides ==
    RuleSent =>
        /\ rule.family # 0 => FamilyOf(SentLayout) = rule.family % 256
        /\ rule.family = 0 => FamilyOf(SentLayout) = PrefixFamily(rule)

(***************************************************************************)
(* C11 as amended: a nonzero rule.family (as one byte) is the family byte  *)
(* of the serialized layout only when the rule has neither src nor dst; a  *)
(* rule with a src or dst prefix is serialized with that prefix's family   *)
(* whatever rule.family is; with neither prefix and rule.family = 0 the    *)
(* family byte is IPv4.                                                    *)
(***************************************************************************)
C11_PrefixFamilyWins ==
    RuleSent =>
        /\ (IsSome(rule.src) \/ IsSome(rule.dst)) =>
              FamilyOf(SentLayout) = PrefixFamily(rule)
        /\ (~IsSome(rule.src) /\ ~IsSome(rule.dst) /\ rule.family # 0) =>
              FamilyOf(SentLayout) = rule.family % 256
        /\ (~IsSome(rule.src) /\ ~IsSome(rule.dst) /\ rule.family = 0) =>
              FamilyOf(SentLayout) = AF_INET

C11_Witness ==
    /\ RuleSent
    /\ rule.family = AF_INET6
    /\ rule.dst = Some(V4Net)
    /\ rule.src = None
    /\ FamilyOf(SentLayout) = AF_INET

====
